---- MODULE Spec2Model ----
(***************************************************************************)
(* A model of the cloudsight-go client library: job submission, the        *)
(* single poll (UpdateJob), the repost of a timed-out job (RepostJob) and  *)
(* the blocking wait (WaitJob), executed by concurrent callers that share  *)
(* jobs.  Time is counted in seconds.  time.Sleep(d) suspends for at least *)
(* d; a request in flight takes any amount of time.                        *)
(***************************************************************************)
EXTENDS Integers, Sequences, FiniteSets, TLC

(* ------------------------------ bounds --------------------------------- *)
MaxTime == 5        \* the clock stops here
MaxTimeout == 1     \* WaitJob is called with a timeout of 0..MaxTimeout
MaxCalls == 2       \* calls of UpdateJob, RepostJob and WaitJob in a run

Procs == {1, 2}     \* the concurrent callers
Jobs == {1, 2}      \* the Job values
Timeouts == 0..MaxTimeout
NoProc == 0

TicksPerSecond == 2 \* the clock's ticks to the second, where calls are signed
MaxInstant == 3     \* the last tick of that clock
MaxSigns == 2       \* the signing calls a run remembers

(* ------------------------- program constants --------------------------- *)
pollMinWait == 4
pollInterval == 1

StatusNotCompleted == "not completed"
StatusCompleted == "completed"
StatusNotFound == "not found"
StatusSkipped == "skipped"
StatusTimeout == "timeout"

JobStatus ==
    {StatusNotCompleted, StatusCompleted, StatusNotFound, StatusSkipped, StatusTimeout}

ErrMissingKey == "ErrMissingKey"
ErrMissingSecret == "ErrMissingSecret"
ErrTimeout == "ErrTimeout"
ErrInvalidRepostStatus == "ErrInvalidRepostStatus"

(* The other values a call returns. *)
Nil == "nil"
AuthError == "rand error"
HTTPError == "HTTP error"
JSONError == "JSON error"
APIError == "api error"
RepostError == "error reposting job"
Pending == "pending"

(* ------------------------------ client --------------------------------- *)
NoClient == [key |-> "", secret |-> ""]

(* A variant that looks at the secret first. *)
NewClientOAuthSecretFirst(key, secret) ==
    IF secret = "" THEN [client |-> NoClient, err |-> ErrMissingSecret]
    ELSE IF key = "" THEN [client |-> NoClient, err |-> ErrMissingKey]
    ELSE [client |-> [key |-> key, secret |-> secret], err |-> Nil]

NewClientOAuth(key, secret) ==
    IF key = "" THEN [client |-> NoClient, err |-> ErrMissingKey]
    ELSE IF secret = "" THEN [client |-> NoClient, err |-> ErrMissingSecret]
    ELSE [client |-> [key |-> key, secret |-> secret], err |-> Nil]

NewClientSimple(key) ==
    IF key = "" THEN [client |-> NoClient, err |-> ErrMissingKey]
    ELSE [client |-> [key |-> key, secret |-> ""], err |-> Nil]

(* The clients a program can hold: those a constructor returned. *)
Clients ==
    {r.client : r \in {x \in {NewClientSimple("key"), NewClientSimple(""),
                              NewClientOAuth("key", "secret"),
                              NewClientOAuth("key", ""),
                              NewClientOAuth("", "secret")} : x.err = Nil}}

(* getAuthHeader: the outcomes of producing the header.  Static mode cannot
   fail; signed mode fails when the random source does. *)
getAuthHeaderOutcomes(c) ==
    IF c.secret = "" THEN {Nil} ELSE {Nil, AuthError}

(* ------------------------------ signing -------------------------------- *)
(* A Params value: the nil map, or a map held as its set of <<key, value>>
   pairs. *)
NilParams == [nil |-> TRUE, kv |-> {}]

MakeParams(kv) == [nil |-> FALSE, kv |-> kv]

(* params[k] = v *)
Put(kv, k, v) == {e \in kv : e[1] # k} \cup {<<k, v>>}

KeysOf(kv) == {e[1] : e \in kv}

oauthSignatureMethod == "HMAC-SHA1"
oauthVersion == "1.0"

OAuthKeys ==
    {"oauth_nonce", "oauth_consumer_key", "oauth_signature_method",
     "oauth_timestamp", "oauth_version"}

(* rand.Read: it fails, or fills the buffer with one of these. *)
RandFails == "rand fails"
RandBytes == {"r1", "r2"}

(* hex.EncodeToString(sha256.Sum256(buf)) *)
Sha256Hex(buf) == IF buf = "r1" THEN "5e1f" ELSE "c07a"

(* strings.ToUpper on the methods the library passes. *)
ToUpper(method) ==
    IF method \in {"get", "GET"} THEN "GET"
    ELSE IF method \in {"post", "POST"} THEN "POST"
    ELSE method

(* A variant that stamps with the tick. *)
UnixInTicks(t) == t

(* Instants are counted in ticks, TicksPerSecond of them to the second.
   time.Time.Unix() is the whole seconds of an instant. *)
Unix(t) == t \div TicksPerSecond

(* fmt.Sprint of a small number. *)
Sprint(n) == <<"0", "1", "2", "3", "4", "5", "6", "7", "8", "9">>[n + 1]

(* An Authorization header, by its parts; a part the scheme does not have is
   empty.  The HMAC is held as its key and its message. *)
NoSignature == [key |-> "", method |-> "", url |-> "", params |-> {}]

Header(scheme, key, nonce, signature, method, timestamp, version) ==
    [scheme |-> scheme, oauth_consumer_key |-> key, oauth_nonce |-> nonce,
     oauth_signature |-> signature, oauth_signature_method |-> method,
     oauth_timestamp |-> timestamp, oauth_version |-> version]

NoHeader == Header("", "", "", NoSignature, "", "", "")

(* A variant that signs a copy of the caller's map. *)
oauthSignOnCopy(method, url, key, secret, params, rnd, t) ==
    IF rnd = RandFails
    THEN [header |-> NoHeader, err |-> AuthError, params |-> params]
    ELSE LET signed ==
                 Put(Put(Put(Put(Put(params.kv,
                     "oauth_nonce", Sha256Hex(rnd)),
                     "oauth_consumer_key", key),
                     "oauth_signature_method", oauthSignatureMethod),
                     "oauth_timestamp", Sprint(Unix(t))),
                     "oauth_version", oauthVersion)
             signature ==
                 [key |-> secret, method |-> ToUpper(method), url |-> url,
                  params |-> signed]
         IN  [header |-> Header("OAuth", key, Sha256Hex(rnd), signature,
                                oauthSignatureMethod, Sprint(Unix(t)),
                                oauthVersion),
              err |-> Nil,
              params |-> params]

(* oauthSign, when rand.Read comes to rnd and time.Now() reads t: the header,
   the error, and the caller's map afterwards.  A nil map is replaced by a map
   of the call's own; any other is written to. *)
oauthSign(method, url, key, secret, params, rnd, t) ==
    IF rnd = RandFails
    THEN [header |-> NoHeader, err |-> AuthError, params |-> params]
    ELSE LET signed ==
                 Put(Put(Put(Put(Put(params.kv,
                     "oauth_nonce", Sha256Hex(rnd)),
                     "oauth_consumer_key", key),
                     "oauth_signature_method", oauthSignatureMethod),
                     "oauth_timestamp", Sprint(Unix(t))),
                     "oauth_version", oauthVersion)
             signature ==
                 [key |-> secret, method |-> ToUpper(method), url |-> url,
                  params |-> signed]
         IN  [header |-> Header("OAuth", key, Sha256Hex(rnd), signature,
                                oauthSignatureMethod, Sprint(Unix(t)),
                                oauthVersion),
              err |-> Nil,
              params |-> IF params.nil THEN params ELSE MakeParams(signed)]

(* The mode a client signs in. *)
SignedMode(c) == c.secret # ""

getAuthHeader(c, method, url, params, rnd, t) ==
    IF ~SignedMode(c)
    THEN [header |-> Header("CloudSight", c.key, "", NoSignature, "", "", ""),
          err |-> Nil, params |-> params]
    ELSE oauthSign(method, url, c.key, c.secret, params, rnd, t)

(* --------------------------- Params setters ---------------------------- *)
(* Coordinates and sizes are whole numbers; a relative focus is counted in
   tenths. *)
Panic == "panic: assignment to entry in nil map"

(* fmt.Sprint of the numbers the setters store. *)
SprintNumber(n) ==
    IF n < 0 THEN "-180"
    ELSE IF n < 10 THEN Sprint(n)
    ELSE IF n = 10 THEN "10"
    ELSE IF n = 30 THEN "30"
    ELSE IF n = 45 THEN "45"
    ELSE IF n = 90 THEN "90"
    ELSE "400"

(* fmt.Sprint of a relative focus, given in tenths. *)
SprintTenths(n) ==
    IF n = 0 THEN "0" ELSE IF n = 10 THEN "1" ELSE "0.5"

(* p[k] = v: the error, if any, and the map afterwards. *)
Assign(p, k, v) ==
    IF p.nil THEN [err |-> Panic, params |-> p]
    ELSE [err |-> Nil, params |-> MakeParams(Put(p.kv, k, v))]

(* p[k1] = v1; p[k2] = v2 *)
AssignBoth(p, k1, v1, k2, v2) ==
    LET a == Assign(p, k1, v1)
    IN  IF a.err # Nil THEN a ELSE Assign(a.params, k2, v2)

SetLatitude(p, lat) ==
    IF lat > 90 \/ lat < -90 THEN [err |-> "invalid latitude", params |-> p]
    ELSE Assign(p, "image_request[latitude]", SprintNumber(lat))

SetLongitude(p, lon) ==
    IF lon > 180 \/ lon < -180 THEN [err |-> "invalid longitude", params |-> p]
    ELSE Assign(p, "image_request[longitude]", SprintNumber(lon))

SetAltitude(p, alt) == Assign(p, "image_request[altitude]", SprintNumber(alt))

SetPosition(p, lat, lon, alt) ==
    LET a == SetLatitude(p, lat)
    IN  IF a.err # Nil THEN a
        ELSE LET b == SetLongitude(a.params, lon)
             IN  IF b.err # Nil THEN b ELSE SetAltitude(b.params, alt)

SetTTL(p, ttl) ==
    IF ttl <= 0 THEN [err |-> "invalid ttl", params |-> p]
    ELSE Assign(p, "image_request[ttl]", SprintNumber(ttl))

SetFocusRelative(p, x, y) ==
    IF x < 0 \/ x > 10 THEN [err |-> "invalid focus X parameter", params |-> p]
    ELSE IF y < 0 \/ y > 10
    THEN [err |-> "invalid focus Y parameter", params |-> p]
    ELSE AssignBoth(p, "focus[x]", SprintTenths(x), "focus[y]", SprintTenths(y))

SetFocusAbsolute(p, x, y) ==
    IF x < 0 THEN [err |-> "invalid focus X parameter", params |-> p]
    ELSE IF y < 0 THEN [err |-> "invalid focus Y parameter", params |-> p]
    ELSE AssignBoth(p, "focus[x]", SprintNumber(x), "focus[y]", SprintNumber(y))

(* ----------------------- what a submission sends ----------------------- *)
DefaultLocale == "en-US"
requestsURL == "https://api.cloudsightapi.com/image_requests"

ReadError == "read error"
NoFields == {}

(* The map a submission works on: a map of its own for a nil Params, the
   caller's otherwise, with the default locale put in when none is set. *)
WithLocale(params) ==
    IF "image_request[locale]" \in KeysOf(params.kv)
    THEN params.kv
    ELSE Put(params.kv, "image_request[locale]", DefaultLocale)

(* What a submission comes to once its fields are written: the header is
   produced, over the map the fields were read from.  fields is that map,
   body the fields of the request body.  The caller's map is the one worked
   on unless it was nil. *)
Submitted(c, params, fields, body, rnd, t) ==
    LET r == getAuthHeader(c, "POST", requestsURL, MakeParams(fields), rnd, t)
    IN  [body |-> body, header |-> r.header, err |-> r.err,
         params |-> IF params.nil THEN params ELSE r.params]

(* ImageRequest up to the call of doImageRequest, when reading the image
   comes to io: the body holds the file and one field for every entry of the
   map. *)
ImageRequestSends(c, filename, params, io, rnd, t) ==
    IF io # Nil
    THEN [body |-> NoFields, header |-> NoHeader, err |-> io, params |-> params]
    ELSE LET fields == WithLocale(params)
         IN  Submitted(c, params, fields,
                       fields \cup {<<"image_request[image]", filename>>}, rnd, t)

(* RemoteImageRequest up to the call of doImageRequest: the body is the
   encoded map, the image's URL in it. *)
RemoteImageRequestSends(c, url, params, rnd, t) ==
    LET fields == Put(WithLocale(params), "image_request[remote_image_url]", url)
    IN  Submitted(c, params, fields, fields, rnd, t)

(* --------------------------- wire format ------------------------------- *)
(* Status strings the service may send: the five known ones and an unknown
   one. *)
WireStatus == JobStatus \cup {"bogus"}

NoCategories == <<>>

(* Decoded poll responses (apiResponse).  error is "null" when the field is
   absent or null; a response that reports an error carries no other field;
   a field the response omits decodes to its zero value. *)
PollBodies ==
    { [error |-> "null", status |-> StatusNotCompleted, name |-> "",
       categories |-> NoCategories, ttl |-> 54, reason |-> "",
       token |-> "", url |-> <<>>],
      [error |-> "null", status |-> StatusCompleted, name |-> "a cat",
       categories |-> <<"cat", "animal">>, ttl |-> 50, reason |-> "",
       token |-> "abc", url |-> <<"/", "/", "i">>],
      [error |-> "null", status |-> StatusSkipped, name |-> "",
       categories |-> NoCategories, ttl |-> 0, reason |-> "blurry",
       token |-> "", url |-> <<>>],
      [error |-> "null", status |-> StatusTimeout, name |-> "",
       categories |-> NoCategories, ttl |-> 0, reason |-> "",
       token |-> "", url |-> <<>>],
      [error |-> "null", status |-> StatusNotFound, name |-> "",
       categories |-> NoCategories, ttl |-> 0, reason |-> "",
       token |-> "", url |-> <<>>],
      [error |-> "null", status |-> "bogus", name |-> "",
       categories |-> NoCategories, ttl |-> 0, reason |-> "",
       token |-> "", url |-> <<>>],
      [error |-> "oops", status |-> "", name |-> "",
       categories |-> NoCategories, ttl |-> 0, reason |-> "",
       token |-> "", url |-> <<>>] }

NoBody ==
    [error |-> "null", status |-> "", name |-> "", categories |-> NoCategories,
     ttl |-> 0, reason |-> "", token |-> "", url |-> <<>>]

(* What a poll request can come to: the transport fails, the body does not
   decode, or it decodes to a response. *)
PollOutcomes ==
    { [kind |-> HTTPError, body |-> NoBody], [kind |-> JSONError, body |-> NoBody] }
    \cup { [kind |-> "decoded", body |-> b] : b \in PollBodies }

(* URLs are sequences of characters. *)
URLs == { <<"/", "/", "i">>, <<"h", ":", "/", "/", "i">> }

HasPrefix(s, prefix) ==
    /\ Len(s) >= Len(prefix)
    /\ SubSeq(s, 1, Len(prefix)) = prefix

(* Bodies of successful submission responses. *)
SubmitBodies ==
    { [status |-> s, ttl |-> 0, token |-> "abc", url |-> u] :
        s \in WireStatus, u \in URLs }

(* What the transport and the decoder can make of a response. *)
FailedOutcomes == {HTTPError, JSONError, APIError}

(* ------------------------------- state --------------------------------- *)
VARIABLES
    now,      \* the clock, time.Now()
    client,   \* the Client every call uses
    live,     \* the jobs a submission has returned
    job,      \* the fields of each Job
    mu,       \* each Job's mutex: its holder, or NoProc
    proc,     \* each caller: its position and the locals of its call
    gets,     \* per job, the GET requests issued to its status endpoint
    termAt,   \* per job, the value of gets when a poll made it terminal
    calls,    \* the calls started so far
    given,    \* the method, the URL and the Params a program signs with
    params,   \* the program's Params map, as the signing calls leave it
    made,     \* the last call of a constructor and what it returned
    signed,   \* the signing calls so far and what they returned
    instant,  \* the clock in ticks, where calls are signed
    sent,     \* the submissions so far: what each put in its request
    setting   \* the last call of a Params setter and what it returned

signVars == <<given, params, made, signed, instant, sent, setting>>

vars == <<now, client, live, job, mu, proc, gets, termAt, calls, signVars>>

NoJob ==
    [Categories |-> NoCategories, Name |-> "", Status |-> "", TTL |-> 0,
     Token |-> "", URL |-> <<>>, SkipReason |-> "", createdAt |-> 0]

NoneSet == [op |-> "none", before |-> NilParams, after |-> NilParams, err |-> Nil]

NoneMade ==
    [ctor |-> "none", key |-> "", secret |-> "", client |-> NoClient, err |-> Nil]

(* A program that signs nothing itself. *)
NotSigning ==
    /\ given = [method |-> "GET", url |-> "u", params |-> NilParams]
    /\ params = NilParams
    /\ made = NoneMade
    /\ signed = <<>>
    /\ instant = 0
    /\ sent = <<>>
    /\ setting = NoneSet

IdleProc ==
    [pc |-> "idle", op |-> "none", job |-> 1, timeout |-> 0, timeoutAt |-> 0,
     wakeAt |-> 0, result |-> "none", reqs |-> 0,
     behind |-> "none", clean |-> TRUE, last |-> NoBody, since |-> pollInterval,
     err |-> Nil]

Init ==
    /\ now = 0
    /\ client \in Clients
    /\ live = {}
    /\ job = [j \in Jobs |-> NoJob]
    /\ mu = [j \in Jobs |-> NoProc]
    /\ proc = [p \in Procs |-> IdleProc]
    /\ gets = [j \in Jobs |-> 0]
    /\ termAt = [j \in Jobs |-> 0]
    /\ calls = 0
    /\ NotSigning

(* A call starts: the locals of the previous call are dropped. *)
StartCall(p, name, j, t) ==
    [IdleProc EXCEPT !.op = name, !.job = j, !.timeout = t, !.result = Pending]

(* A call ends with the value r; its caller has yet to take it. *)
Finish(pr, r) ==
    [pr EXCEPT !.pc = "done", !.result = r, !.wakeAt = 0]

(* The caller takes the returned value.  This is the step right after the
   call's last one and touches the caller alone, so it is scheduled before
   anything else moves. *)
Return(p) ==
    /\ proc[p].pc = "done"
    /\ proc' = [proc EXCEPT ![p] = IdleProc]
    /\ UNCHANGED <<signVars, now, client, live, job, mu, gets, termAt, calls>>

Running == \A p \in Procs : proc[p].pc # "done"

(* --------------------------- job submission ---------------------------- *)
(* doImageRequest, after the response was decoded without error: the Job it
   returns.  Its mutex is new, so unlocked. *)
doImageRequest(body, t) ==
    [Categories |-> NoCategories,
     Name |-> "",
     Status |-> body.status,
     TTL |-> body.ttl,
     Token |-> body.token,
     URL |-> IF HasPrefix(body.url, <<"/", "/">>)
             THEN <<"h", ":">> \o body.url ELSE body.url,
     SkipReason |-> "",
     createdAt |-> t]

(* ImageRequest / RemoteImageRequest: sign, send, decode.  The call touches no
   job that exists, so it is one step of a caller of its own; a failure returns
   no Job and changes nothing.  Jobs are handed out in order. *)
ImageRequest(j) ==
    /\ Running
    /\ j \notin live
    /\ \A i \in Jobs : i < j => i \in live
    /\ \E auth \in getAuthHeaderOutcomes(client) :
        IF auth # Nil
        THEN UNCHANGED <<live, job>>
        ELSE \/ \E e \in FailedOutcomes : UNCHANGED <<live, job>>
             \/ \E body \in SubmitBodies :
                    /\ job' = [job EXCEPT ![j] = doImageRequest(body, now)]
                    /\ live' = live \cup {j}
    /\ UNCHANGED <<signVars, now, client, mu, proc, gets, termAt, calls>>

(* ------------------------------ UpdateJob ------------------------------ *)
(* A variant that copies the decoded fields before it looks at the
   response's error. *)
updateJobFromRequestCopiesFirst(jb, o) ==
    LET copied == [jb EXCEPT !.Categories = o.body.categories,
                             !.Name = o.body.name,
                             !.Status = o.body.status,
                             !.TTL = o.body.ttl,
                             !.SkipReason = o.body.reason]
    IN  IF o.kind = HTTPError THEN [err |-> HTTPError, job |-> jb]
        ELSE IF o.kind = JSONError THEN [err |-> JSONError, job |-> jb]
        ELSE IF o.body.error # "null" THEN [err |-> APIError, job |-> copied]
        ELSE [err |-> Nil, job |-> copied]

(* A variant that copies every field of the response. *)
updateJobFromRequestCopiesAll(jb, o) ==
    IF o.kind = HTTPError THEN [err |-> HTTPError, job |-> jb]
    ELSE IF o.kind = JSONError THEN [err |-> JSONError, job |-> jb]
    ELSE IF o.body.error # "null" THEN [err |-> APIError, job |-> jb]
    ELSE [err |-> Nil,
          job |-> [jb EXCEPT !.Categories = o.body.categories,
                             !.Name = o.body.name,
                             !.Status = o.body.status,
                             !.TTL = o.body.ttl,
                             !.SkipReason = o.body.reason,
                             !.Token = o.body.token,
                             !.URL = o.body.url]]

(* A variant that keeps the value of a field the response omits. *)
updateJobFromRequestMerges(jb, o) ==
    IF o.kind = HTTPError THEN [err |-> HTTPError, job |-> jb]
    ELSE IF o.kind = JSONError THEN [err |-> JSONError, job |-> jb]
    ELSE IF o.body.error # "null" THEN [err |-> APIError, job |-> jb]
    ELSE [err |-> Nil,
          job |-> [jb EXCEPT
                    !.Categories = IF o.body.categories = NoCategories
                                   THEN @ ELSE o.body.categories,
                    !.Name = IF o.body.name = "" THEN @ ELSE o.body.name,
                    !.Status = o.body.status,
                    !.TTL = IF o.body.ttl = 0 THEN @ ELSE o.body.ttl,
                    !.SkipReason = IF o.body.reason = "" THEN @ ELSE o.body.reason]]

(* A variant that leaves the name as it was. *)
updateJobFromRequestKeepsName(jb, o) ==
    IF o.kind = HTTPError THEN [err |-> HTTPError, job |-> jb]
    ELSE IF o.kind = JSONError THEN [err |-> JSONError, job |-> jb]
    ELSE IF o.body.error # "null" THEN [err |-> APIError, job |-> jb]
    ELSE [err |-> Nil,
          job |-> [jb EXCEPT !.Categories = o.body.categories,
                             !.Status = o.body.status,
                             !.TTL = o.body.ttl,
                             !.SkipReason = o.body.reason]]

(* updateJobFromRequest: the error it returns and the job it leaves, given
   what the request came to. *)
updateJobFromRequest(jb, o) ==
    IF o.kind = HTTPError THEN [err |-> HTTPError, job |-> jb]
    ELSE IF o.kind = JSONError THEN [err |-> JSONError, job |-> jb]
    ELSE IF o.body.error # "null" THEN [err |-> APIError, job |-> jb]
    ELSE [err |-> Nil,
          job |-> [jb EXCEPT !.Categories = o.body.categories,
                             !.Name = o.body.name,
                             !.Status = o.body.status,
                             !.TTL = o.body.ttl,
                             !.SkipReason = o.body.reason]]

(* A variant that takes only "completed" for final. *)
UpdateJobSkipsOnlyCompleted(jb) == jb.Status = StatusCompleted

(* UpdateJob's test of the status, under the mutex: TRUE when it returns at
   once. *)
UpdateJobSkips(jb) == jb.Status # StatusNotCompleted

(* A variant in which WaitJob goes on after a poll that failed. *)
UpdateJobReturnGoesOn(pr, r) ==
    IF pr.op = "WaitJob"
    THEN [pr EXCEPT !.pc = "wj_status", !.err = r]
    ELSE Finish(pr, r)

(* UpdateJob returns r: to the caller, or into RepostJob's or WaitJob's frame,
   where it is err and is returned unless it is nil. *)
UpdateJobReturn(pr, r) ==
    IF pr.op = "WaitJob"
    THEN IF r # Nil
         THEN Finish([pr EXCEPT !.clean = FALSE, !.err = r], r)
         ELSE [pr EXCEPT !.pc = "wj_status", !.err = r]
    ELSE Finish(pr, r)

CallUpdateJob(p) ==
    /\ Running
    /\ proc[p].pc = "idle"
    /\ calls < MaxCalls
    /\ \E j \in live :
        proc' = [proc EXCEPT ![p] =
            [StartCall(p, "UpdateJob", j, 0) EXCEPT
                !.pc = "uj_lock",
                !.behind = IF mu[j] = NoProc THEN "none" ELSE proc[mu[j]].op]]
    /\ calls' = calls + 1
    /\ UNCHANGED <<signVars, now, client, live, job, mu, gets, termAt>>

(* A variant with one mutex for all jobs. *)
CanLockGlobal(j) == \A i \in Jobs : mu[i] = NoProc

(* A variant whose Lock never returns. *)
CanLockNever(j) == FALSE

(* A variant whose Lock never waits. *)
CanLockAlways(j) == TRUE

(* job.mu.Lock() returns when no caller holds the job's mutex. *)
CanLock(j) == mu[j] = NoProc

UpdateJobLock(p) ==
    /\ Running
    /\ proc[p].pc = "uj_lock"
    /\ CanLock(proc[p].job)
    /\ mu' = [mu EXCEPT ![proc[p].job] = p]
    /\ proc' = [proc EXCEPT ![p].pc = "uj_check"]
    /\ UNCHANGED <<signVars, now, client, live, job, gets, termAt, calls>>

(* The status test, the header and the sending of the GET, when producing
   the header comes to one of auths. *)
UpdateJobChecks(p, auths) ==
    LET j == proc[p].job IN
    /\ Running
    /\ proc[p].pc = "uj_check"
    /\ IF UpdateJobSkips(job[j])
       THEN /\ proc' = [proc EXCEPT ![p] = UpdateJobReturn(@, Nil)]
            /\ mu' = [mu EXCEPT ![j] = NoProc]
            /\ UNCHANGED gets
       ELSE \E auth \in auths :
              IF auth # Nil
              THEN /\ proc' = [proc EXCEPT ![p] = UpdateJobReturn(@, auth)]
                   /\ mu' = [mu EXCEPT ![j] = NoProc]
                   /\ UNCHANGED gets
              ELSE /\ proc' = [proc EXCEPT ![p] =
                          [@ EXCEPT !.pc = "uj_inflight", !.reqs = @ + 1,
                                    !.since = 0]]
                   /\ gets' = [gets EXCEPT ![j] = @ + 1]
                   /\ UNCHANGED mu
    /\ UNCHANGED <<signVars, now, client, live, job, termAt, calls>>

UpdateJobCheck(p) == UpdateJobChecks(p, getAuthHeaderOutcomes(client))

(* The response arrives, one of outcomes: updateJobFromRequest, then the
   deferred Unlock.  The call remembers the last response it decoded without
   error. *)
UpdateJobReceives(p, outcomes) ==
    LET j == proc[p].job IN
    /\ Running
    /\ proc[p].pc = "uj_inflight"
    /\ \E o \in outcomes :
        LET r == updateJobFromRequest(job[j], o) IN
        /\ job' = [job EXCEPT ![j] = r.job]
        /\ termAt' = [termAt EXCEPT ![j] =
                IF r.err = Nil /\ o.body.status # StatusNotCompleted
                THEN gets[j] ELSE @]
        /\ proc' = [proc EXCEPT ![p] =
                UpdateJobReturn([@ EXCEPT !.last = IF r.err = Nil THEN o.body ELSE @],
                                r.err)]
    /\ mu' = [mu EXCEPT ![j] = NoProc]
    /\ UNCHANGED <<signVars, now, client, live, gets, calls>>

UpdateJobResponse(p) == UpdateJobReceives(p, PollOutcomes)

(* ------------------------------ RepostJob ------------------------------ *)
(* A variant that also reposts a job still in flight. *)
RepostJobRejectsUnlessPending(jb) ==
    jb.Status \notin {StatusTimeout, StatusNotCompleted}

(* RepostJob's test of the status, read without the mutex: TRUE when the
   repost is rejected. *)
RepostJobRejects(jb) == jb.Status # StatusTimeout

CallRepostJob(p) ==
    /\ Running
    /\ proc[p].pc = "idle"
    /\ calls < MaxCalls
    /\ \E j \in live :
        proc' = [proc EXCEPT ![p] =
            [StartCall(p, "RepostJob", j, 0) EXCEPT !.pc = "rj_check"]]
    /\ calls' = calls + 1
    /\ UNCHANGED <<signVars, now, client, live, job, mu, gets, termAt>>

(* The status test, the header and the sending of the POST. *)
RepostJobCheck(p) ==
    LET j == proc[p].job IN
    /\ Running
    /\ proc[p].pc = "rj_check"
    /\ IF RepostJobRejects(job[j])
       THEN proc' = [proc EXCEPT ![p] = Finish(@, ErrInvalidRepostStatus)]
       ELSE \E auth \in getAuthHeaderOutcomes(client) :
              proc' = [proc EXCEPT ![p] =
                  IF auth # Nil
                  THEN Finish(@, auth)
                  ELSE [@ EXCEPT !.pc = "rj_inflight", !.reqs = @ + 1]]
    /\ UNCHANGED <<signVars, now, client, live, job, mu, gets, termAt, calls>>

(* The repost's response: a transport failure, a status code other than 200,
   or 200, after which RepostJob calls UpdateJob. *)
RepostJobResponse(p) ==
    /\ Running
    /\ proc[p].pc = "rj_inflight"
    /\ \E code \in {HTTPError, "500", "200"} :
        proc' = [proc EXCEPT ![p] =
            IF code = HTTPError THEN Finish(@, HTTPError)
            ELSE IF code # "200" THEN Finish(@, RepostError)
            ELSE [@ EXCEPT !.pc = "uj_lock"]]
    /\ UNCHANGED <<signVars, now, client, live, job, mu, gets, termAt, calls>>

(* ------------------------------- WaitJob ------------------------------- *)
(* WaitJob is called with one of timeouts:
   timeoutAt := time.Now().Add(timeout) *)
CallWaitJobWith(p, timeouts) ==
    /\ Running
    /\ proc[p].pc = "idle"
    /\ calls < MaxCalls
    /\ \E j \in live, t \in timeouts :
        proc' = [proc EXCEPT ![p] =
            [StartCall(p, "WaitJob", j, t) EXCEPT
                !.pc = "wj_start", !.timeoutAt = now + t]]
    /\ calls' = calls + 1
    /\ UNCHANGED <<signVars, now, client, live, job, mu, gets, termAt>>

CallWaitJob(p) == CallWaitJobWith(p, Timeouts)

(* A variant that counts the quiet period from the start of the clock
   and not from the job's creation. *)
QuietSleepFromEpoch(createdAt, t) ==
    IF t < pollMinWait THEN pollMinWait - t ELSE 0

(* WaitJob's quiet period: how long it sleeps before the loop, given the
   creation time and the clock. *)
QuietSleep(createdAt, t) ==
    LET waitUntil == createdAt + pollMinWait
    IN  IF t < waitUntil THEN waitUntil - t ELSE 0

(* waitUntil, the second reading of the clock and the first Sleep. *)
WaitJobQuiet(p) ==
    LET d == QuietSleep(job[proc[p].job].createdAt, now) IN
    /\ Running
    /\ proc[p].pc = "wj_start"
    /\ proc' = [proc EXCEPT ![p] =
            IF d > 0 THEN [@ EXCEPT !.pc = "wj_quiet", !.wakeAt = now + d]
            ELSE [@ EXCEPT !.pc = "wj_loop"]]
    /\ UNCHANGED <<signVars, now, client, live, job, mu, gets, termAt, calls>>

(* time.Sleep returns, no earlier than asked. *)
WaitJobWake(p) ==
    /\ Running
    /\ proc[p].pc \in {"wj_quiet", "wj_sleep"}
    /\ now >= proc[p].wakeAt
    /\ proc' = [proc EXCEPT ![p] = [@ EXCEPT !.pc = "wj_loop", !.wakeAt = 0]]
    /\ UNCHANGED <<signVars, now, client, live, job, mu, gets, termAt, calls>>

(* A variant that forgets that a timeout of 0 means no deadline. *)
WaitJobTimedOutAlsoZero(timeout, timeoutAt, t) == t > timeoutAt

(* The loop's deadline test: TRUE when WaitJob gives up. *)
WaitJobTimedOut(timeout, timeoutAt, t) == timeout > 0 /\ t > timeoutAt

(* Top of the loop: the deadline test, then the call of UpdateJob. *)
WaitJobLoop(p) ==
    /\ Running
    /\ proc[p].pc = "wj_loop"
    /\ proc' = [proc EXCEPT ![p] =
            IF WaitJobTimedOut(@.timeout, @.timeoutAt, now)
            THEN Finish(@, ErrTimeout)
            ELSE [@ EXCEPT !.pc = "uj_lock"]]
    /\ UNCHANGED <<signVars, now, client, live, job, mu, gets, termAt, calls>>

(* A variant that does not sleep between polls. *)
SleepUntilNow(t) == t

(* time.Sleep(1 * time.Second) called at t: the instant it may return. *)
SleepUntil(t) == t + pollInterval

(* After a successful UpdateJob: the status test, read without the mutex, and
   the Sleep between polls. *)
WaitJobStatus(p) ==
    /\ Running
    /\ proc[p].pc = "wj_status"
    /\ proc' = [proc EXCEPT ![p] =
            IF job[proc[p].job].Status # StatusNotCompleted
            THEN Finish([@ EXCEPT !.clean = FALSE], Nil)
            ELSE [@ EXCEPT !.pc = "wj_sleep", !.wakeAt = SleepUntil(now)]]
    /\ UNCHANGED <<signVars, now, client, live, job, mu, gets, termAt, calls>>

(* ------------------------------- the clock ----------------------------- *)
Tick ==
    /\ Running
    /\ now < MaxTime
    /\ now' = now + 1
    /\ UNCHANGED <<signVars, client, live, job, mu, proc, gets, termAt, calls>>

(* Every operation, with time, on one job shared by the callers. *)
Next ==
    \/ Tick
    \/ ImageRequest(1)
    \/ \E p \in Procs : CallUpdateJob(p)
    \/ \E p \in Procs : UpdateJobLock(p)
    \/ \E p \in Procs : UpdateJobCheck(p)
    \/ \E p \in Procs : UpdateJobResponse(p)
    \/ \E p \in Procs : CallRepostJob(p)
    \/ \E p \in Procs : RepostJobCheck(p)
    \/ \E p \in Procs : RepostJobResponse(p)
    \/ \E p \in Procs : CallWaitJob(p)
    \/ \E p \in Procs : WaitJobQuiet(p)
    \/ \E p \in Procs : WaitJobWake(p)
    \/ \E p \in Procs : WaitJobLoop(p)
    \/ \E p \in Procs : WaitJobStatus(p)
    \/ \E p \in Procs : Return(p)

Spec == Init /\ [][Next]_vars

(* The operations that never sleep, on two jobs shared by the callers. *)
NextJobs ==
    \/ \E j \in Jobs : ImageRequest(j)
    \/ \E p \in Procs : CallUpdateJob(p)
    \/ \E p \in Procs : UpdateJobLock(p)
    \/ \E p \in Procs : UpdateJobCheck(p)
    \/ \E p \in Procs : UpdateJobResponse(p)
    \/ \E p \in Procs : CallRepostJob(p)
    \/ \E p \in Procs : RepostJobCheck(p)
    \/ \E p \in Procs : RepostJobResponse(p)
    \/ \E p \in Procs : Return(p)

SpecJobs == Init /\ [][NextJobs]_vars

(* ------------------------ waits that must end -------------------------- *)
FinalFrom == 2      \* the poll of a job from which the service says final

(* The clock without an end: once it shows MaxTime, a second more renumbers
   every instant the program holds one lower; an instant of MaxTime seconds
   ago or longer compares as the oldest one. *)
Earlier(t) == IF t > 0 THEN t - 1 ELSE 0

(* Under this clock a caller also counts the seconds since its call's last
   poll request, up to pollInterval. *)
Older(pr) ==
    [pr EXCEPT !.since = IF @ < pollInterval THEN @ + 1 ELSE @]

(* One caller waits while the other polls the job. *)
Waiter == 1
Poller == 2

TickOn ==
    /\ Running
    /\ IF now < MaxTime
       THEN /\ now' = now + 1
            /\ proc' = [p \in Procs |-> Older(proc[p])]
            /\ UNCHANGED job
       ELSE /\ now' = now
            /\ job' = [j \in Jobs |-> [job[j] EXCEPT !.createdAt = Earlier(@)]]
            /\ proc' = [p \in Procs |->
                    [Older(proc[p]) EXCEPT !.timeoutAt = Earlier(@),
                                           !.wakeAt = Earlier(@)]]
    /\ UNCHANGED <<signVars, client, live, mu, gets, termAt, calls>>

(* A service that answers every poll without error and reports a final
   status from the job's FinalFrom-th poll onward. *)
FinalServer(n) ==
    { [kind |-> "decoded", body |-> b] : b \in
        { x \in PollBodies :
            /\ x.error = "null"
            /\ n >= FinalFrom => x.status \in JobStatus \ {StatusNotCompleted} } }

(* WaitJob without a deadline. *)
CallWaitJobForever(p) == CallWaitJobWith(p, {0})

(* A poll whose header is produced and whose request the service answers. *)
UpdateJobCheckOK(p) == UpdateJobChecks(p, {Nil})

UpdateJobResponseOK(p) == UpdateJobReceives(p, FinalServer(gets[proc[p].job]))

NextFinal ==
    \/ TickOn
    \/ ImageRequest(1)
    \/ \E p \in Procs : UpdateJobLock(p)
    \/ \E p \in Procs : UpdateJobCheckOK(p)
    \/ \E p \in Procs : UpdateJobResponseOK(p)
    \/ CallWaitJobForever(Waiter)
    \/ CallUpdateJob(Poller)
    \/ \E p \in Procs : WaitJobQuiet(p)
    \/ \E p \in Procs : WaitJobWake(p)
    \/ \E p \in Procs : WaitJobLoop(p)
    \/ \E p \in Procs : WaitJobStatus(p)
    \/ \E p \in Procs : Return(p)

(* Time passes, every caller that can take its next step takes it, and every
   request is answered. *)
FairFinal ==
    /\ WF_vars(TickOn)
    /\ \A p \in Procs :
        /\ WF_vars(UpdateJobLock(p))
        /\ WF_vars(UpdateJobCheckOK(p))
        /\ WF_vars(UpdateJobResponseOK(p))
        /\ WF_vars(WaitJobQuiet(p))
        /\ WF_vars(WaitJobWake(p))
        /\ WF_vars(WaitJobLoop(p))
        /\ WF_vars(WaitJobStatus(p))
        /\ WF_vars(Return(p))

SpecFinal == Init /\ [][NextFinal]_vars /\ FairFinal

(* WaitJob with a deadline, against a service that answers as it likes. *)
CallWaitJobTimed(p) == CallWaitJobWith(p, Timeouts \ {0})

NextDeadline ==
    \/ TickOn
    \/ ImageRequest(1)
    \/ \E p \in Procs : UpdateJobLock(p)
    \/ \E p \in Procs : UpdateJobCheck(p)
    \/ \E p \in Procs : UpdateJobResponse(p)
    \/ CallWaitJobTimed(Waiter)
    \/ CallUpdateJob(Poller)
    \/ \E p \in Procs : WaitJobQuiet(p)
    \/ \E p \in Procs : WaitJobWake(p)
    \/ \E p \in Procs : WaitJobLoop(p)
    \/ \E p \in Procs : WaitJobStatus(p)
    \/ \E p \in Procs : Return(p)

(* Time passes, every caller that can take its next step takes it, and every
   request is answered, well or badly. *)
FairDeadline ==
    /\ WF_vars(TickOn)
    /\ \A p \in Procs :
        /\ WF_vars(UpdateJobLock(p))
        /\ WF_vars(UpdateJobCheck(p))
        /\ WF_vars(UpdateJobResponse(p))
        /\ WF_vars(WaitJobQuiet(p))
        /\ WF_vars(WaitJobWake(p))
        /\ WF_vars(WaitJobLoop(p))
        /\ WF_vars(WaitJobStatus(p))
        /\ WF_vars(Return(p))

SpecDeadline == Init /\ [][NextDeadline]_vars /\ FairDeadline

(* ------------------- constructing clients and signing ------------------ *)
Keys == {"", "key"}
Secrets == {"", "secret"}

(* The Params a program builds before it signs: none, an empty one, one with
   a request parameter, one that an earlier signed request has written to. *)
GivenParams ==
    { NilParams,
      MakeParams({}),
      MakeParams({<<"image_request[locale]", "en">>}),
      MakeParams({<<"image_request[locale]", "en">>, <<"oauth_nonce", "0ld">>,
                  <<"oauth_consumer_key", "key">>,
                  <<"oauth_signature_method", oauthSignatureMethod>>,
                  <<"oauth_timestamp", "0">>, <<"oauth_version", oauthVersion>>}) }

jobVars == <<now, live, job, mu, proc, gets, termAt, calls>>

InitSign ==
    /\ now = 0
    /\ client = NoClient
    /\ live = {}
    /\ job = [j \in Jobs |-> NoJob]
    /\ mu = [j \in Jobs |-> NoProc]
    /\ proc = [p \in Procs |-> IdleProc]
    /\ gets = [j \in Jobs |-> 0]
    /\ termAt = [j \in Jobs |-> 0]
    /\ calls = 0
    /\ given \in [method : {"get", "POST"}, url : {"u"}, params : GivenParams]
    /\ params = given.params
    /\ made = NoneMade
    /\ signed = <<>>
    /\ instant = 0
    /\ sent = <<>>
    /\ setting = NoneSet

(* A constructor returned r: the program keeps the client it got, if any.
   It makes its clients before it signs or submits with one. *)
Constructed(ctor, key, secret, r) ==
    /\ signed = <<>>
    /\ sent = <<>>
    /\ made' = [ctor |-> ctor, key |-> key, secret |-> secret,
                client |-> r.client, err |-> r.err]
    /\ client' = IF r.err = Nil THEN r.client ELSE client
    /\ UNCHANGED <<jobVars, given, params, signed, instant, sent, setting>>

CallNewClientOAuth ==
    \E key \in Keys, secret \in Secrets :
        Constructed("NewClientOAuth", key, secret, NewClientOAuth(key, secret))

CallNewClientSimple ==
    \E key \in Keys :
        Constructed("NewClientSimple", key, "", NewClientSimple(key))

(* The program builds its Params again, with the same contents. *)
NewParams ==
    /\ params # given.params
    /\ params' = given.params
    /\ UNCHANGED <<jobVars, client, given, made, signed, instant, sent, setting>>

(* getAuthHeader on the program's client and Params. *)
CallGetAuthHeader ==
    /\ client # NoClient
    /\ Len(signed) < MaxSigns
    /\ \E rnd \in RandBytes \cup {RandFails} :
        LET r == getAuthHeader(client, given.method, given.url, params, rnd, instant)
        IN  /\ signed' = Append(signed,
                    [at |-> instant, rnd |-> rnd, client |-> client,
                     before |-> params, after |-> r.params,
                     header |-> r.header, err |-> r.err])
            /\ params' = r.params
    /\ UNCHANGED <<jobVars, client, given, made, instant, sent, setting>>

TickSign ==
    /\ instant < MaxInstant
    /\ instant' = instant + 1
    /\ UNCHANGED <<jobVars, client, given, params, made, signed, sent, setting>>

NextSign ==
    \/ CallNewClientOAuth
    \/ CallNewClientSimple
    \/ NewParams
    \/ CallGetAuthHeader
    \/ TickSign

SpecSign == InitSign /\ [][NextSign]_vars

(* ------------------------- submitting with Params ---------------------- *)
(* A submission returned r. *)
Sends(op, rnd, r) ==
    /\ sent' = Append(sent,
            [op |-> op, at |-> instant, rnd |-> rnd, client |-> client,
             before |-> params, after |-> r.params, body |-> r.body,
             header |-> r.header, err |-> r.err])
    /\ params' = r.params
    /\ UNCHANGED <<jobVars, client, given, made, signed, instant, setting>>

CallImageRequest ==
    /\ client # NoClient
    /\ Len(sent) < MaxSigns
    /\ \E io \in {Nil, ReadError}, rnd \in RandBytes \cup {RandFails} :
        Sends("ImageRequest", rnd,
              ImageRequestSends(client, "cat.jpg", params, io, rnd, instant))

CallRemoteImageRequest ==
    /\ client # NoClient
    /\ Len(sent) < MaxSigns
    /\ \E rnd \in RandBytes \cup {RandFails} :
        Sends("RemoteImageRequest", rnd,
              RemoteImageRequestSends(client, given.url, params, rnd, instant))

NextSubmit ==
    \/ CallNewClientOAuth
    \/ CallNewClientSimple
    \/ NewParams
    \/ CallImageRequest
    \/ CallRemoteImageRequest
    \/ TickSign

SpecSubmit == InitSign /\ [][NextSubmit]_vars

(* --------------------------- building Params --------------------------- *)
Latitudes == {-91, 45, 91}
Longitudes == {-181, -180, 181}
Altitudes == {10}
TTLs == {-1, 0, 30}
Tenths == {-1, 5, 11}
Pixels == {-1, 0, 400}

(* A setter called on the program's Params returned r. *)
Sets(op, r) ==
    /\ setting' = [op |-> op, before |-> params, after |-> r.params, err |-> r.err]
    /\ params' = r.params
    /\ UNCHANGED <<jobVars, client, given, made, signed, instant, sent>>

CallSetLatitude == \E lat \in Latitudes : Sets("SetLatitude", SetLatitude(params, lat))

CallSetLongitude ==
    \E lon \in Longitudes : Sets("SetLongitude", SetLongitude(params, lon))

CallSetPosition ==
    \E lat \in Latitudes, lon \in Longitudes, alt \in Altitudes :
        Sets("SetPosition", SetPosition(params, lat, lon, alt))

CallSetTTL == \E ttl \in TTLs : Sets("SetTTL", SetTTL(params, ttl))

CallSetFocusRelative ==
    \E x \in Tenths, y \in Tenths :
        Sets("SetFocusRelative", SetFocusRelative(params, x, y))

CallSetFocusAbsolute ==
    \E x \in Pixels, y \in Pixels :
        Sets("SetFocusAbsolute", SetFocusAbsolute(params, x, y))

NextParams ==
    \/ NewParams
    \/ CallSetLatitude
    \/ CallSetLongitude
    \/ CallSetPosition
    \/ CallSetTTL
    \/ CallSetFocusRelative
    \/ CallSetFocusAbsolute

SpecParams == InitSign /\ [][NextParams]_vars

(* ======================= properties of the program ===================== *)
(* Caller p takes a step: each of its steps moves it to another position. *)
Moves(p) == proc'[p].pc # proc[p].pc

(* UpdateJob hands r back to its caller: the call ends with r, or, inside
   WaitJob, the loop goes on to its own status test. *)
UpdateJobGives(p, r) ==
    IF proc[p].op = "WaitJob" /\ r = Nil
    THEN proc'[p].pc = "wj_status"
    ELSE proc'[p].pc = "done" /\ proc'[p].result = r

(* C1: UpdateJob on a job whose status is not "not completed" issues no
   request, returns nil and leaves the job as it is; and no step of any
   operation changes such a job or polls it, whatever was done before. *)
Thm_C1_TerminalPollIsNoOp ==
    [][\A j \in live :
        job[j].Status # StatusNotCompleted =>
            /\ job'[j] = job[j]
            /\ gets'[j] = gets[j]
            /\ \A p \in Procs :
                (proc[p].pc = "uj_check" /\ proc[p].job = j /\ Moves(p)) =>
                    /\ UpdateJobGives(p, Nil)
                    /\ proc'[p].reqs = proc[p].reqs]_vars

(* An UpdateJob on a job that an earlier poll made final has returned nil
   without a request. *)
Wit_C1 ==
    \E p \in Procs :
        /\ proc[p].pc = "done"
        /\ proc[p].op = "UpdateJob"
        /\ proc[p].result = Nil
        /\ proc[p].reqs = 0
        /\ termAt[proc[p].job] > 0
        /\ job[proc[p].job].Status = StatusCompleted

(* C2: a RepostJob that got 200 for its POST and returned nil has also issued
   the GET that refreshes the job: two requests in all. *)
Cex_C2_RepostRefreshes ==
    \A p \in Procs :
        (proc[p].pc = "done" /\ proc[p].op = "RepostJob" /\ proc[p].result = Nil)
            => proc[p].reqs = 2

(* C3: RepostJob on a job whose status is not "timeout" returns
   ErrInvalidRepostStatus, has issued no request and leaves the job as it
   is. *)
Thm_C3_RepostRejected ==
    [][\A p \in Procs :
        (/\ proc[p].pc = "rj_check"
         /\ job[proc[p].job].Status # StatusTimeout
         /\ Moves(p)) =>
            /\ proc'[p].pc = "done"
            /\ proc'[p].result = ErrInvalidRepostStatus
            /\ proc'[p].reqs = 0
            /\ job' = job
            /\ gets' = gets]_vars

(* A repost of a skipped job was rejected. *)
Wit_C3 ==
    \E p \in Procs :
        /\ proc[p].pc = "done"
        /\ proc[p].op = "RepostJob"
        /\ proc[p].result = ErrInvalidRepostStatus
        /\ proc[p].reqs = 0
        /\ job[proc[p].job].Status = StatusSkipped
(* C4: a WaitJob that has issued a request did so no earlier than 4 seconds
   after the job's creation. *)
Thm_C4_QuietPeriod ==
    \A p \in Procs :
        (proc[p].op = "WaitJob" /\ proc[p].reqs > 0) =>
            now >= job[proc[p].job].createdAt + pollMinWait

(* A WaitJob has its first poll in flight at the very end of the quiet
   period of a job created after the clock started. *)
Wit_C4 ==
    \E p \in Procs :
        /\ proc[p].op = "WaitJob"
        /\ proc[p].pc = "uj_inflight"
        /\ proc[p].reqs = 1
        /\ job[proc[p].job].createdAt > 0
        /\ now = job[proc[p].job].createdAt + pollMinWait

(* C5: WaitJob returns ErrTimeout exactly when, at a test at the top of its
   loop, the timeout is positive and the clock is past call time + timeout;
   every poll it made before succeeded and left the status "not completed".
   With a timeout of 0 it never returns ErrTimeout. *)
Thm_C5_TimeoutExactly ==
    /\ [](\A p \in Procs :
            (/\ proc[p].pc = "done"
             /\ proc[p].op = "WaitJob"
             /\ proc[p].result = ErrTimeout) =>
                /\ proc[p].timeout > 0
                /\ now > proc[p].timeoutAt
                /\ proc[p].clean)
    /\ [][\A p \in Procs :
            (proc[p].pc = "wj_loop" /\ Moves(p)) =>
                ((proc[p].timeout > 0 /\ now > proc[p].timeoutAt)
                    <=> (proc'[p].pc = "done" /\ proc'[p].result = ErrTimeout))]_vars

(* A WaitJob has polled, found the job still "not completed" and then timed
   out. *)
Wit_C5 ==
    \E p \in Procs :
        /\ proc[p].pc = "done"
        /\ proc[p].op = "WaitJob"
        /\ proc[p].result = ErrTimeout
        /\ proc[p].reqs >= 1
        /\ job[proc[p].job].Status = StatusNotCompleted

(* C6: a WaitJob with a positive timeout that has made no request yet is
   never put to sleep until later than its deadline plus one poll interval. *)
Cex_C6_BlocksUpToTimeout ==
    \A p \in Procs :
        (/\ proc[p].op = "WaitJob"
         /\ proc[p].pc \in {"wj_quiet", "wj_sleep"}
         /\ proc[p].reqs = 0
         /\ proc[p].timeout > 0) =>
            proc[p].wakeAt <= proc[p].timeoutAt + pollInterval
(* C7: when the poll fails (transport, decoding, or an error reported in the
   response) UpdateJob returns an error and the job is as before; otherwise
   it returns nil and the job has the fields of a response. *)
Thm_C7_FailedPollKeepsJob ==
    [][\A p \in Procs :
        (proc[p].pc = "uj_inflight" /\ Moves(p)) =>
            LET j == proc[p].job IN
            \/ /\ \E e \in FailedOutcomes : UpdateJobGives(p, e)
               /\ job' = job
               /\ job'[j].Status = StatusNotCompleted
            \/ /\ UpdateJobGives(p, Nil)
               /\ \E b \in PollBodies :
                    /\ b.error = "null"
                    /\ job'[j].Status = b.status
                    /\ job'[j].Name = b.name]_vars

(* An UpdateJob got a response that reports an error, and returned it. *)
Wit_C7 ==
    \E p \in Procs :
        /\ proc[p].pc = "done"
        /\ proc[p].op = "UpdateJob"
        /\ proc[p].result = APIError
        /\ proc[p].reqs = 1
        /\ job[proc[p].job].Status = StatusNotCompleted

(* The callers between UpdateJob's Lock and its Unlock on job j. *)
InUpdateJob(j) ==
    {p \in Procs : proc[p].job = j /\ proc[p].pc \in {"uj_check", "uj_inflight"}}

(* C8: at most one caller per job is between UpdateJob's status test and its
   writes, and it is the holder of that job's mutex; so at most one poll per
   job is in flight.  A caller waiting for a job's mutex can take it as soon as
   nobody is inside UpdateJob on that same job, whatever goes on on the other
   jobs. *)
Thm_C8_PerJobGuard ==
    /\ \A j \in Jobs :
        /\ Cardinality(InUpdateJob(j)) <= 1
        /\ \A p \in Procs : p \in InUpdateJob(j) <=> mu[j] = p
    /\ \A p \in Procs :
        (/\ Running
         /\ proc[p].pc = "uj_lock"
         /\ InUpdateJob(proc[p].job) = {}) => ENABLED UpdateJobLock(p)

(* Two callers have polls in flight on two different jobs. *)
Wit_C8 ==
    \E p, q \in Procs :
        /\ proc[p].pc = "uj_inflight"
        /\ proc[q].pc = "uj_inflight"
        /\ proc[p].job # proc[q].job

(* C9: once a poll has made a job final no further poll request is issued for
   it, and an UpdateJob that made no request on such a job has returned nil;
   so when the first poll makes it final there is one request in all. *)
Thm_C9_OnePollWhenFinal ==
    \A j \in live :
        termAt[j] # 0 =>
            /\ gets[j] = termAt[j]
            /\ \A p \in Procs :
                (/\ proc[p].pc = "done"
                 /\ proc[p].op = "UpdateJob"
                 /\ proc[p].job = j
                 /\ proc[p].reqs = 0) => proc[p].result = Nil

(* An UpdateJob that was called while another UpdateJob held the job's mutex
   has returned nil without a request, after the other's poll, the only one,
   made the job final. *)
Wit_C9 ==
    \E p \in Procs :
        /\ proc[p].pc = "done"
        /\ proc[p].op = "UpdateJob"
        /\ proc[p].behind = "UpdateJob"
        /\ proc[p].result = Nil
        /\ proc[p].reqs = 0
        /\ termAt[proc[p].job] = 1
        /\ gets[proc[p].job] = 1

(* C10: the status of every job is one of the five values of JobStatus. *)
Cex_C10_StatusIsClosed ==
    \A j \in live : job[j].Status \in JobStatus

(* C11: when every poll succeeds and the service reports a final status from
   some poll onward, a WaitJob without a deadline returns nil in the end, and
   then the job's status is final; when the wait's own poll got the final
   response, the job's status, name and categories are that response's. *)
WaitJobEndedFinal(p) ==
    LET jb == job[proc[p].job] IN
    /\ proc[p].pc = "done"
    /\ proc[p].op = "WaitJob"
    /\ proc[p].result = Nil
    /\ jb.Status # StatusNotCompleted
    /\ proc[p].last.status \notin {"", StatusNotCompleted} =>
            /\ jb.Status = proc[p].last.status
            /\ jb.Name = proc[p].last.name
            /\ jb.Categories = proc[p].last.categories

Thm_C11_WaitEndsFinal ==
    \A p \in Procs : (proc[p].op = "WaitJob") ~> WaitJobEndedFinal(p)

Wit_C11 ==
    \E p \in Procs :
        /\ WaitJobEndedFinal(p)
        /\ proc[p].reqs = FinalFrom
        /\ proc[p].last.status = StatusCompleted
(* C12: within one WaitJob, a poll request after the first is sent at least
   pollInterval seconds after the one before it. *)
SendsPoll(p) ==
    /\ proc[p].op = "WaitJob"
    /\ proc[p].pc = "uj_check"
    /\ proc'[p].pc = "uj_inflight"

Thm_C12_PollsASecondApart ==
    [][\A p \in Procs :
        SendsPoll(p) /\ proc[p].reqs >= 1 => proc[p].since >= pollInterval]_vars

Wit_C12 ==
    \E p \in Procs :
        /\ proc[p].op = "WaitJob"
        /\ proc[p].pc = "uj_inflight"
        /\ proc[p].reqs = 2
(* C13: once a submission has returned a job, no step of UpdateJob, WaitJob
   or RepostJob changes its Token or its URL. *)
Thm_C13_TokenAndURLKept ==
    [][\A j \in live :
        /\ job'[j].Token = job[j].Token
        /\ job'[j].URL = job[j].URL]_vars

Wit_C13 ==
    /\ 1 \in live
    /\ job[1].Name = "a cat"
    /\ job[1].Token = "abc"
    /\ job[1].URL = <<"h", ":", "/", "/", "i">>
(* C14: NewClientOAuth returns ErrMissingKey for an empty key, whatever the
   secret, and ErrMissingSecret for an empty secret with a key; NewClientSimple
   returns ErrMissingKey for an empty key; none of these returns a client.  A
   constructor that returns a client returns one with a key, which signs in
   signed mode exactly when NewClientOAuth made it. *)
Thm_C14_MissingCredentials ==
    /\ made.ctor = "NewClientOAuth" /\ made.key = "" =>
            made.err = ErrMissingKey /\ made.client = NoClient
    /\ made.ctor = "NewClientOAuth" /\ made.key # "" /\ made.secret = "" =>
            made.err = ErrMissingSecret /\ made.client = NoClient
    /\ made.ctor = "NewClientSimple" /\ made.key = "" =>
            made.err = ErrMissingKey /\ made.client = NoClient
    /\ made.ctor # "none" /\ made.err = Nil =>
            /\ made.client # NoClient
            /\ made.client.key # ""
            /\ SignedMode(made.client) <=> made.ctor = "NewClientOAuth"
    /\ client # NoClient => client.key # ""

Wit_C14 ==
    /\ made.ctor = "NewClientOAuth"
    /\ made.key = ""
    /\ made.secret = ""
    /\ made.err = ErrMissingKey
    /\ client # NoClient
    /\ SignedMode(client)
(* C15: in static mode the header is "CloudSight <key>", the call does not
   fail and the Params map is as before; in signed mode a call that returns a
   header leaves a non-nil map with the five oauth keys added to its keys and
   every other key at its value. *)
Calls == 1..Len(signed)

StaticCall(i) == ~SignedMode(signed[i].client)

SignedCall(i) == SignedMode(signed[i].client) /\ signed[i].err = Nil

Thm_C15_MapWrittenWhenSigned ==
    \A i \in Calls :
        /\ StaticCall(i) =>
            /\ signed[i].err = Nil
            /\ signed[i].header.scheme = "CloudSight"
            /\ signed[i].header.oauth_consumer_key = signed[i].client.key
            /\ signed[i].header.oauth_signature = NoSignature
            /\ signed[i].after = signed[i].before
        /\ SignedCall(i) /\ ~signed[i].before.nil =>
            /\ ~signed[i].after.nil
            /\ KeysOf(signed[i].after.kv) = KeysOf(signed[i].before.kv) \cup OAuthKeys
            /\ \A e \in signed[i].before.kv :
                    e[1] \notin OAuthKeys => e \in signed[i].after.kv

Wit_C15 ==
    \E i, j \in Calls :
        /\ SignedCall(i)
        /\ signed[i].before = MakeParams({<<"image_request[locale]", "en">>})
        /\ signed[i].after # signed[i].before
        /\ SignedCall(j)
        /\ signed[j].before = signed[i].after

(* C16, as amended: two signed calls with the same client, method, URL and
   Params leave maps that differ in oauth_nonce and oauth_timestamp at most;
   their nonces differ exactly when the random source gave them different
   bytes, their timestamps exactly when they were made in different seconds. *)
SameInputs(i, j) ==
    /\ SignedCall(i)
    /\ SignedCall(j)
    /\ signed[i].client = signed[j].client
    /\ signed[i].before = signed[j].before

Without(kv, ks) == {e \in kv : e[1] \notin ks}

ValueOf(kv, k) == (CHOOSE e \in kv : e[1] = k)[2]

Thm_C16_NonceAndSecondDiffer ==
    \A i, j \in Calls :
        SameInputs(i, j) /\ ~signed[i].before.nil =>
            /\ Without(signed[i].after.kv, {"oauth_nonce", "oauth_timestamp"})
                 = Without(signed[j].after.kv, {"oauth_nonce", "oauth_timestamp"})
            /\ ValueOf(signed[i].after.kv, "oauth_nonce")
                 = ValueOf(signed[j].after.kv, "oauth_nonce")
                    <=> signed[i].rnd = signed[j].rnd
            /\ ValueOf(signed[i].after.kv, "oauth_timestamp")
                 = ValueOf(signed[j].after.kv, "oauth_timestamp")
                    <=> signed[i].at \div TicksPerSecond
                         = signed[j].at \div TicksPerSecond

Wit_C16 ==
    \E i, j \in Calls :
        /\ SameInputs(i, j)
        /\ ~signed[i].before.nil
        /\ signed[i].at # signed[j].at
        /\ signed[i].rnd # signed[j].rnd
        /\ signed[i].header.oauth_timestamp # signed[j].header.oauth_timestamp

(* C16, as stated: two signed calls with the same inputs, made at different
   instants with different random bytes, carry different timestamps. *)
Cex_C16_TimestampsDiffer ==
    \A i, j \in Calls :
        SameInputs(i, j) /\ signed[i].at # signed[j].at
                         /\ signed[i].rnd # signed[j].rnd =>
            signed[i].header.oauth_timestamp # signed[j].header.oauth_timestamp
(* C17: WaitJob ends at the first outcome.  A poll of its own that fails ends
   it there with that error; a status other than "not completed" after a poll
   ends it with nil and with no further request; and it returns nil only when
   the status is other than "not completed". *)
InPoll(p) == proc[p].op = "WaitJob" /\ proc[p].pc \in {"uj_check", "uj_inflight"}

Thm_C17_FirstOutcomeEnds ==
    [][\A p \in Procs :
        LET j == proc[p].job IN
        /\ InPoll(p) /\ Moves(p) /\ proc'[p].err # Nil =>
                /\ proc'[p].pc = "done"
                /\ proc'[p].result = proc'[p].err
        /\ proc[p].pc = "wj_status" /\ Moves(p)
                /\ job[j].Status # StatusNotCompleted =>
                /\ proc'[p].pc = "done"
                /\ proc'[p].result = Nil
                /\ proc'[p].reqs = proc[p].reqs
        /\ proc'[p].op = "WaitJob" /\ proc'[p].pc = "done"
                /\ proc'[p].result = Nil =>
                job'[j].Status # StatusNotCompleted]_vars

Wit_C17 ==
    \E p \in Procs :
        /\ proc[p].op = "WaitJob"
        /\ proc[p].pc = "done"
        /\ proc[p].reqs = 2
        /\ proc[p].result = JSONError
(* C18: a poll of a "not completed" job that succeeds leaves the job's
   categories, name, status, ttl and skip reason at the values of the
   response, a field the response omits at its zero value, and no other field
   changed. *)
PollSucceeds(p) ==
    /\ proc[p].pc = "uj_inflight"
    /\ Moves(p)
    /\ UpdateJobGives(p, Nil)

WaitJobEnded(p) ==
    /\ proc[p].pc = "done"
    /\ proc[p].op = "WaitJob"
    /\ proc[p].result \in
            {Nil, ErrTimeout, AuthError, HTTPError, JSONError, APIError}

Thm_C19_DeadlineEndsWait ==
    \A p \in Procs :
        (proc[p].op = "WaitJob" /\ proc[p].timeout > 0) ~> WaitJobEnded(p)

(* A wait gave up after a poll that found the job not completed. *)
Wit_C19 ==
    \E p \in Procs :
        /\ WaitJobEnded(p)
        /\ proc[p].timeout > 0
        /\ proc[p].result = ErrTimeout
        /\ proc[p].reqs >= 1
        /\ proc[p].last.status = StatusNotCompleted
(* C20: a caller about to read Status in RepostJob's test or in WaitJob's test
   after a poll does so while no other caller is inside UpdateJob's critical
   section on the same job. *)
ReadsStatus(p) == proc[p].pc \in {"rj_check", "wj_status"}

Cex_C20_StatusReadUnderGuard ==
    \A p \in Procs :
        ReadsStatus(p) =>
            \A q \in Procs \ {p} :
                ~ /\ proc[q].job = proc[p].job
                  /\ proc[q].pc = "uj_inflight"
                  /\ mu[proc[q].job] = q
(* C21: a submission in signed mode puts no oauth parameter in its request
   body, given Params that held none when the program built it, also when
   the program submits with the same Params a second time. *)
Submissions == 1..Len(sent)

Cex_C21_NoOAuthInBody ==
    KeysOf(given.params.kv) \cap OAuthKeys = {} =>
        \A i \in Submissions :
            SignedMode(sent[i].client) /\ sent[i].err = Nil =>
                KeysOf(sent[i].body) \cap OAuthKeys = {}
(* C22: a call of SetLatitude, SetLongitude, SetTTL, SetFocusRelative,
   SetFocusAbsolute or SetPosition that returns an error leaves the Params
   as they were. *)
SetterFailed == setting.op # "none" /\ setting.err \notin {Nil, Panic}

Cex_C22_FailedSetterKeepsMap ==
    SetterFailed => setting.after = setting.before
====
